---- MODULE Spec2Model ----
(***************************************************************************)
(* Model of the DICOM file decoder of go-dicom: the transfer-syntax        *)
(* resolver (transfersyntax.go) and the top-level Parse routine together   *)
(* with the element lookup helpers (the parser file).                      *)
(*                                                                         *)
(* Parse is modelled statement by statement with a program counter pc.     *)
(* The Decoder ("Cursor"), ParseFileHeader, ReadDataElement, GetString,    *)
(* parseSpecificCharacterSet and LookupUID are not part of the two source  *)
(* files; they are modelled from the design document.                      *)
(***************************************************************************)
EXTENDS Naturals, Sequences, FiniteSets, TLC

VARIABLES
    registry,       \* the UID registry: UID -> type, or Absent
    uidArg,         \* the uid a resolver call is made on
    canonRes,       \* result of CanonicalTransferSyntaxUID(uidArg)
    canonAgain,     \* result of CanonicalTransferSyntaxUID(canonRes.uid)
    parseRes,       \* result of ParseTransferSyntaxUID(uidArg)
    meta,           \* input: the meta-group elements on the wire
    wire,           \* input: the dataset elements on the wire
    pc,             \* position in Parse
    remaining,      \* Decoder: buffer.Len()
    pos,            \* Decoder: number of dataset wire elements consumed
    err,            \* Decoder: the sticky error
    tsStack,        \* Decoder: the transfer-syntax context stack
    codingSystem,   \* Decoder: the active coding system
    metaElems,      \* Parse local: metaElems
    fileElements,   \* Parse local: file.Elements
    elem,           \* Parse local: elem (lookup result, then loop variable)
    tsUID,          \* Parse local: transferSyntaxUID
    ret,            \* what Parse returned
    pushes,         \* history: PushTransferSyntax calls made by Parse
    pops,           \* history: PopTransferSyntax calls made by Parse
    readLog         \* history: elements ReadDataElement returned without error

tsVars == <<registry, uidArg, canonRes, canonAgain, parseRes>>

inVars == <<meta, wire>>

parseVars == <<pc, remaining, pos, err, tsStack, codingSystem, metaElems,
               fileElements, elem, tsUID, ret, pushes, pops, readLog>>

vars == <<registry, uidArg, canonRes, canonAgain, parseRes, meta, wire,
          pc, remaining, pos, err, tsStack, codingSystem, metaElems,
          fileElements, elem, tsUID, ret, pushes, pops, readLog>>

(***************************************************************************)
(* Bounds of the model.                                                    *)
(***************************************************************************)
MaxMeta == 2

MaxElems == 2

(***************************************************************************)
(* transfersyntax.go                                                       *)
(***************************************************************************)
ImplicitVRLittleEndian == "1.2.840.10008.1.2"

ExplicitVRLittleEndian == "1.2.840.10008.1.2.1"

ExplicitVRBigEndian == "1.2.840.10008.1.2.2"

DeflatedExplicitVRLittleEndian == "1.2.840.10008.1.2.1.99"

StandardTransferSyntaxes ==
    <<ImplicitVRLittleEndian, ExplicitVRLittleEndian, ExplicitVRBigEndian,
      DeflatedExplicitVRLittleEndian>>

StandardSet == {StandardTransferSyntaxes[i] : i \in DOMAIN StandardTransferSyntaxes}

\* Registry side (uid.go is not among the source files).
UIDTypeTransferSyntax == "Transfer Syntax"

UIDTypeSOPClass == "SOP Class"

Absent == "absent"

JPEGBaseline == "1.2.840.10008.1.2.4.50"

VerificationSOPClass == "1.2.840.10008.1.1"

UnregisteredUID == "9.9.9.9"

UIDs == StandardSet \cup {JPEGBaseline, VerificationSOPClass, UnregisteredUID}

RegistryEntries == {Absent, UIDTypeTransferSyntax, UIDTypeSOPClass}

\* The registry of the DICOM standard, restricted to UIDs.
StdRegistry ==
    [u \in UIDs |->
        IF u \in StandardSet \cup {JPEGBaseline} THEN UIDTypeTransferSyntax
        ELSE IF u = VerificationSOPClass THEN UIDTypeSOPClass
        ELSE Absent]

\* error values
NoError == "nil"

ErrUnknownUID == "UnknownUID"

ErrNotATransferSyntax == "NotATransferSyntax"

\* LookupUID(uid): the registry entry, or an error when the uid is absent.
LookupUID(uid) ==
    IF uid \in DOMAIN registry /\ registry[uid] # Absent
    THEN [e |-> [Type |-> registry[uid]], err |-> NoError]
    ELSE [e |-> [Type |-> ""], err |-> ErrUnknownUID]

\* Mutant: ExplicitVRLittleEndian is missing from the switch's cases.
CanonicalMissingCase(uid) ==
    IF uid \in {ImplicitVRLittleEndian, ExplicitVRBigEndian,
                DeflatedExplicitVRLittleEndian}
    THEN [uid |-> uid, err |-> NoError]
    ELSE LET l == LookupUID(uid) IN
         IF l.err # NoError THEN [uid |-> "", err |-> l.err]
         ELSE IF l.e.Type # UIDTypeTransferSyntax
              THEN [uid |-> "", err |-> ErrNotATransferSyntax]
              ELSE [uid |-> ExplicitVRLittleEndian, err |-> NoError]

\* Mutant: the default branch returns the uid itself, not ExplicitVRLittleEndian.
CanonicalNoFallback(uid) ==
    IF uid \in {ImplicitVRLittleEndian, ExplicitVRLittleEndian, ExplicitVRBigEndian,
                DeflatedExplicitVRLittleEndian}
    THEN [uid |-> uid, err |-> NoError]
    ELSE LET l == LookupUID(uid) IN
         IF l.err # NoError THEN [uid |-> "", err |-> l.err]
         ELSE IF l.e.Type # UIDTypeTransferSyntax
              THEN [uid |-> "", err |-> ErrNotATransferSyntax]
              ELSE [uid |-> uid, err |-> NoError]

CanonicalTransferSyntaxUID(uid) ==
    CASE uid = ImplicitVRLittleEndian -> [uid |-> uid, err |-> NoError]
      [] uid = ExplicitVRLittleEndian -> [uid |-> uid, err |-> NoError]
      [] uid = ExplicitVRBigEndian -> [uid |-> uid, err |-> NoError]
      [] uid = DeflatedExplicitVRLittleEndian -> [uid |-> uid, err |-> NoError]
      [] OTHER ->
            LET l == LookupUID(uid) IN
            IF l.err # NoError THEN [uid |-> "", err |-> l.err]
            ELSE IF l.e.Type # UIDTypeTransferSyntax
                 THEN [uid |-> "", err |-> ErrNotATransferSyntax]
                 ELSE [uid |-> ExplicitVRLittleEndian, err |-> NoError]

\* Result of ParseTransferSyntaxUID: bo is nil on error; panic is log.Panic.
TSResult(bo, implicit, e, panic) ==
    [bo |-> bo, implicit |-> implicit, err |-> e, panic |-> panic]

ParseTransferSyntaxUID(uid) ==
    LET c == CanonicalTransferSyntaxUID(uid) IN
    IF c.err # NoError THEN TSResult("nil", FALSE, c.err, FALSE)
    ELSE CASE c.uid = ImplicitVRLittleEndian -> TSResult("little", TRUE, NoError, FALSE)
           [] c.uid = ExplicitVRLittleEndian -> TSResult("little", FALSE, NoError, FALSE)
           [] c.uid = ExplicitVRBigEndian -> TSResult("big", FALSE, NoError, FALSE)
           [] OTHER -> TSResult("nil", FALSE, NoError, TRUE)

\* "not called yet"
NotCalled == [uid |-> "", err |-> "not called"]

NotParsed == TSResult("nil", FALSE, "not called", FALSE)

(***************************************************************************)
(* Data elements.  A wire item is one encoded element of the input; bad    *)
(* marks the place where decoding fails (bad VR code, impossible length,   *)
(* truncated input).  vl is the declared value length in bytes.            *)
(***************************************************************************)
TagMetaElementGroupLength == "(0002,0000)"

TagTransferSyntaxUID == "(0002,0010)"

TagSpecificCharacterSet == "(0008,0005)"

TagPatientName == "(0010,0010)"

Item(tag, vr, val, vl, bad) ==
    [tag |-> tag, vr |-> vr, val |-> val, vl |-> vl, bad |-> bad]

\* UIDs a meta header names as its transfer syntax.
MetaUIDs == {ImplicitVRLittleEndian, ExplicitVRLittleEndian, ExplicitVRBigEndian,
             DeflatedExplicitVRLittleEndian, UnregisteredUID}

MetaItems ==
    {Item(TagMetaElementGroupLength, "UL", "30", 4, FALSE),
     Item(TagTransferSyntaxUID, "UL", "1", 4, FALSE),
     Item(TagMetaElementGroupLength, "UL", "", 0, TRUE)}
    \cup {Item(TagTransferSyntaxUID, "UI", u, 22, FALSE) : u \in MetaUIDs}

WireItems ==
    {Item(TagSpecificCharacterSet, "CS", "ISO_IR 100", 10, FALSE),
     Item(TagSpecificCharacterSet, "CS", "ISO_IR 192", 10, FALSE),
     Item(TagSpecificCharacterSet, "CS", "ISO_IR 999", 10, FALSE),
     Item(TagPatientName, "PN", "DOE^JOHN", 8, FALSE),
     Item(TagPatientName, "PN", "", 0, TRUE)}

SeqsUpTo(S, n) == UNION {[1..k -> S] : k \in 0..n}

\* struct DicomElement; cs records the coding system the value was decoded with.
DicomElement(tag, vr, vl, val, cs) ==
    [Tag |-> tag, Vr |-> vr, Vl |-> vl, Value |-> val, cs |-> cs]

ZeroElement == DicomElement("", "", 0, "", "")

\* Bytes of one element on the wire: tag (4), VR (2), length (2), value.
ElemBytes(item) == 8 + item.vl

RECURSIVE SumBytes(_)
SumBytes(items) ==
    IF items = <<>> THEN 0 ELSE ElemBytes(Head(items)) + SumBytes(Tail(items))

\* Preamble (128 bytes) and magic marker (4 bytes).
PreambleBytes == 132

DefaultCodingSystem == "default"

Decode(item, cs) == DicomElement(item.tag, item.vr, item.vl, item.val, cs)

DecodeAll(items, cs) == [i \in DOMAIN items |-> Decode(items[i], cs)]

ErrDecode == "DecodeError"

ErrMissingElement == "MissingRequiredElement"

ErrNotAString == "NotAString"

ErrBadCharset == "BadCharset"

ExplicitVRLittle == [bo |-> "little", implicit |-> FALSE]

(***************************************************************************)
(* The Decoder's operations used by Parse.                                 *)
(***************************************************************************)
\* SetError: the first error wins.
SetError(old, new) == IF old = NoError THEN new ELSE old

\* Finish: the recorded error, if any.
Finish == err

PushTransferSyntax(stack, bo, implicit) ==
    Append(stack, [bo |-> bo, implicit |-> implicit])

PopTransferSyntax(stack) == SubSeq(stack, 1, Len(stack) - 1)

\* Index of the first item at which decoding fails, 0 when there is none.
RECURSIVE FirstBad(_, _)
FirstBad(items, i) ==
    IF i > Len(items) THEN 0
    ELSE IF items[i].bad THEN i ELSE FirstBad(items, i + 1)

\* ParseFileHeader: the meta elements decoded before the first failure, the
\* error recorded on the decoder and the bytes consumed.  The header is always
\* explicit-VR little-endian: ParseFileHeader leaves the context stack as it was.
ParseFileHeader ==
    LET b == FirstBad(meta, 1) IN
    IF b = 0
    THEN [elems |-> DecodeAll(meta, codingSystem), err |-> NoError,
          used |-> PreambleBytes + SumBytes(meta)]
    ELSE [elems |-> DecodeAll(SubSeq(meta, 1, b - 1), codingSystem), err |-> ErrDecode,
          used |-> PreambleBytes + SumBytes(SubSeq(meta, 1, b - 1)) + 8]

\* ReadDataElement: with an error recorded every read is a no-op returning the
\* zero element; otherwise the next element of the wire is consumed.
ReadDataElement ==
    IF err # NoError \/ pos >= Len(wire)
    THEN [elem |-> ZeroElement, err |-> SetError(err, ErrDecode), used |-> 0, items |-> 0]
    ELSE LET item == wire[pos + 1] IN
         IF item.bad
         THEN [elem |-> DicomElement(item.tag, "", 0, "", codingSystem),
               err |-> ErrDecode, used |-> 8, items |-> 1]
         ELSE [elem |-> Decode(item, codingSystem), err |-> NoError,
               used |-> ElemBytes(item), items |-> 1]

\* DicomElement.GetString: the value when it is a single string.
GetString(e) ==
    IF e.Vr \in {"UL", "US", "SL", "SS", "FL", "FD", "AT", "OB", "OW", "SQ", "NA"}
    THEN [s |-> "", err |-> ErrNotAString]
    ELSE [s |-> e.Value, err |-> NoError]

\* parseSpecificCharacterSet: the coding system a Specific Character Set value names.
parseSpecificCharacterSet(e) ==
    CASE e.Value = "ISO_IR 100" -> [cs |-> "iso-8859-1", err |-> NoError]
      [] e.Value = "ISO_IR 192" -> [cs |-> "utf-8", err |-> NoError]
      [] OTHER -> [cs |-> "", err |-> ErrBadCharset]

(***************************************************************************)
(* The parser file.                                                        *)
(***************************************************************************)
\* Mutant: the last matching element is returned.
RECURSIVE LookupLast(_, _, _)
LookupLast(elems, tag, i) ==
    IF i < 1 THEN [elem |-> ZeroElement, err |-> ErrMissingElement]
    ELSE IF elems[i].Tag = tag THEN [elem |-> elems[i], err |-> NoError]
         ELSE LookupLast(elems, tag, i - 1)

LookupElementByTagLast(elems, tag) == LookupLast(elems, tag, Len(elems))

RECURSIVE LookupFrom(_, _, _)
LookupFrom(elems, tag, i) ==
    IF i > Len(elems) THEN [elem |-> ZeroElement, err |-> ErrMissingElement]
    ELSE IF elems[i].Tag = tag THEN [elem |-> elems[i], err |-> NoError]
         ELSE LookupFrom(elems, tag, i + 1)

LookupElementByTag(elems, tag) == LookupFrom(elems, tag, 1)

NotReturned == [file |-> "none", Elements |-> <<>>, err |-> "none"]

\* return nil, err
ReturnNil(e) == [file |-> "nil", Elements |-> <<>>, err |-> e]

\* return file, err
ReturnFile(elems, e) == [file |-> "file", Elements |-> elems, err |-> e]

(***************************************************************************)
(* Parse, one action per statement group.  pc:                             *)
(*   header -> lookup -> getstring -> resolve -> loop -> check -> charset  *)
(*   -> append -> loop ... -> finish -> done, or panicked (log.Panic).     *)
(***************************************************************************)
\* metaElems := ParseFileHeader(buffer); if buffer.Error() != nil { return nil, ... }
\* file := &DicomFile{Elements: metaElems}
ParseHeader ==
    /\ pc = "header"
    /\ LET h == ParseFileHeader
           e == SetError(err, h.err)
       IN /\ metaElems' = h.elems
          /\ err' = e
          /\ remaining' = remaining - h.used
          /\ IF e # NoError
             THEN /\ ret' = ReturnNil(e)
                  /\ pc' = "done"
                  /\ UNCHANGED fileElements
             ELSE /\ fileElements' = h.elems
                  /\ pc' = "lookup"
                  /\ UNCHANGED ret
    /\ UNCHANGED <<pos, tsStack, codingSystem, elem, tsUID, pushes, pops, readLog>>
    /\ UNCHANGED <<tsVars, inVars>>

\* elem, err := LookupElementByTag(metaElems, TagTransferSyntaxUID)
LookupTS ==
    /\ pc = "lookup"
    /\ LET l == LookupElementByTag(metaElems, TagTransferSyntaxUID)
       IN IF l.err # NoError
          THEN /\ ret' = ReturnNil(l.err)
               /\ pc' = "done"
               /\ UNCHANGED elem
          ELSE /\ elem' = l.elem
               /\ pc' = "getstring"
               /\ UNCHANGED ret
    /\ UNCHANGED <<remaining, pos, err, tsStack, codingSystem, metaElems, fileElements,
                   tsUID, pushes, pops, readLog>>
    /\ UNCHANGED <<tsVars, inVars>>

\* transferSyntaxUID, err := elem.GetString()
GetStringTS ==
    /\ pc = "getstring"
    /\ LET g == GetString(elem)
       IN IF g.err # NoError
          THEN /\ ret' = ReturnNil(g.err)
               /\ pc' = "done"
               /\ UNCHANGED tsUID
          ELSE /\ tsUID' = g.s
               /\ pc' = "resolve"
               /\ UNCHANGED ret
    /\ UNCHANGED <<remaining, pos, err, tsStack, codingSystem, metaElems, fileElements,
                   elem, pushes, pops, readLog>>
    /\ UNCHANGED <<tsVars, inVars>>

\* endian, implicit, err := ParseTransferSyntaxUID(transferSyntaxUID)
\* buffer.PushTransferSyntax(endian, implicit); defer buffer.PopTransferSyntax()
ResolveTS ==
    /\ pc = "resolve"
    /\ LET r == ParseTransferSyntaxUID(tsUID)
       IN IF r.panic
          THEN /\ pc' = "panicked"
               /\ UNCHANGED <<ret, tsStack, pushes>>
          ELSE IF r.err # NoError
               THEN /\ ret' = ReturnNil(r.err)
                    /\ pc' = "done"
                    /\ UNCHANGED <<tsStack, pushes>>
               ELSE /\ tsStack' = PushTransferSyntax(tsStack, r.bo, r.implicit)
                    /\ pushes' = pushes + 1
                    /\ pc' = "loop"
                    /\ UNCHANGED ret
    /\ UNCHANGED <<remaining, pos, err, codingSystem, metaElems, fileElements,
                   elem, tsUID, pops, readLog>>
    /\ UNCHANGED <<tsVars, inVars>>

\* for buffer.Len() > 0 { elem := ReadDataElement(buffer)
LoopRead ==
    /\ pc = "loop"
    /\ remaining > 0
    /\ LET r == ReadDataElement
       IN /\ elem' = r.elem
          /\ err' = r.err
          /\ remaining' = remaining - r.used
          /\ pos' = pos + r.items
          /\ readLog' = IF r.err = NoError THEN Append(readLog, r.elem) ELSE readLog
    /\ pc' = "check"
    /\ UNCHANGED <<tsStack, codingSystem, metaElems, fileElements, tsUID, ret,
                   pushes, pops>>
    /\ UNCHANGED <<tsVars, inVars>>

\* the loop condition buffer.Len() > 0 is false
LoopExit ==
    /\ pc = "loop"
    /\ ~(remaining > 0)
    /\ pc' = "finish"
    /\ UNCHANGED <<remaining, pos, err, tsStack, codingSystem, metaElems, fileElements,
                   elem, tsUID, ret, pushes, pops, readLog>>
    /\ UNCHANGED <<tsVars, inVars>>

\* Mutant: continue where the code breaks.
LoopCheckContinue ==
    /\ pc = "check"
    /\ pc' = IF err # NoError THEN "loop" ELSE "charset"
    /\ UNCHANGED <<remaining, pos, err, tsStack, codingSystem, metaElems, fileElements,
                   elem, tsUID, ret, pushes, pops, readLog>>
    /\ UNCHANGED <<tsVars, inVars>>

\* if buffer.Error() != nil { break }
LoopCheck ==
    /\ pc = "check"
    /\ pc' = IF err # NoError THEN "finish" ELSE "charset"
    /\ UNCHANGED <<remaining, pos, err, tsStack, codingSystem, metaElems, fileElements,
                   elem, tsUID, ret, pushes, pops, readLog>>
    /\ UNCHANGED <<tsVars, inVars>>

\* Mutant: the parsed coding system is not installed on the decoder.
LoopCharsetNoSet ==
    /\ pc = "charset"
    /\ IF elem.Tag = TagSpecificCharacterSet
       THEN LET p == parseSpecificCharacterSet(elem)
            IN IF p.err # NoError
               THEN err' = SetError(err, p.err)
               ELSE UNCHANGED err
       ELSE UNCHANGED err
    /\ pc' = "append"
    /\ UNCHANGED <<remaining, pos, tsStack, codingSystem, metaElems, fileElements, elem,
                   tsUID, ret, pushes, pops, readLog>>
    /\ UNCHANGED <<tsVars, inVars>>

\* if elem.Tag == TagSpecificCharacterSet { cs, err := parseSpecificCharacterSet(elem)
\*   if err != nil { buffer.SetError(err) } else { buffer.SetCodingSystem(cs) } }
LoopCharset ==
    /\ pc = "charset"
    /\ IF elem.Tag = TagSpecificCharacterSet
       THEN LET p == parseSpecificCharacterSet(elem)
            IN IF p.err # NoError
               THEN /\ err' = SetError(err, p.err)
                    /\ UNCHANGED codingSystem
               ELSE /\ codingSystem' = p.cs
                    /\ UNCHANGED err
       ELSE UNCHANGED <<err, codingSystem>>
    /\ pc' = "append"
    /\ UNCHANGED <<remaining, pos, tsStack, metaElems, fileElements, elem,
                   tsUID, ret, pushes, pops, readLog>>
    /\ UNCHANGED <<tsVars, inVars>>

\* Mutant: the element is put at the front of the list.
LoopAppendFront ==
    /\ pc = "append"
    /\ fileElements' = <<elem>> \o fileElements
    /\ pc' = "loop"
    /\ UNCHANGED <<remaining, pos, err, tsStack, codingSystem, metaElems,
                   elem, tsUID, ret, pushes, pops, readLog>>
    /\ UNCHANGED <<tsVars, inVars>>

\* file.Elements = append(file.Elements, *elem)
LoopAppend ==
    /\ pc = "append"
    /\ fileElements' = Append(fileElements, elem)
    /\ pc' = "loop"
    /\ UNCHANGED <<remaining, pos, err, tsStack, codingSystem, metaElems,
                   elem, tsUID, ret, pushes, pops, readLog>>
    /\ UNCHANGED <<tsVars, inVars>>

\* Mutant: the pop is not deferred, and is skipped when the loop broke on an error.
ParseReturnPopOnSuccess ==
    /\ pc = "finish"
    /\ ret' = ReturnFile(fileElements, Finish)
    /\ IF err = NoError
       THEN /\ tsStack' = PopTransferSyntax(tsStack)
            /\ pops' = pops + 1
       ELSE UNCHANGED <<tsStack, pops>>
    /\ pc' = "done"
    /\ UNCHANGED <<remaining, pos, err, codingSystem, metaElems, fileElements,
                   elem, tsUID, pushes, readLog>>
    /\ UNCHANGED <<tsVars, inVars>>

\* Mutant: like the early exits, the final return gives nil on an error.
ParseReturnNilOnError ==
    /\ pc = "finish"
    /\ ret' = IF err = NoError THEN ReturnFile(fileElements, Finish) ELSE ReturnNil(Finish)
    /\ tsStack' = PopTransferSyntax(tsStack)
    /\ pops' = pops + 1
    /\ pc' = "done"
    /\ UNCHANGED <<remaining, pos, err, codingSystem, metaElems, fileElements,
                   elem, tsUID, pushes, readLog>>
    /\ UNCHANGED <<tsVars, inVars>>

\* return file, buffer.Finish(), then the deferred buffer.PopTransferSyntax()
ParseReturn ==
    /\ pc = "finish"
    /\ ret' = ReturnFile(fileElements, Finish)
    /\ tsStack' = PopTransferSyntax(tsStack)
    /\ pops' = pops + 1
    /\ pc' = "done"
    /\ UNCHANGED <<remaining, pos, err, codingSystem, metaElems, fileElements,
                   elem, tsUID, pushes, readLog>>
    /\ UNCHANGED <<tsVars, inVars>>

(***************************************************************************)
(* Calls of the resolver on its own.                                       *)
(***************************************************************************)
DoCanonical ==
    /\ canonRes = NotCalled
    /\ canonRes' = CanonicalTransferSyntaxUID(uidArg)
    /\ UNCHANGED <<registry, uidArg, canonAgain, parseRes, inVars, parseVars>>

DoCanonicalAgain ==
    /\ canonRes # NotCalled
    /\ canonRes.err = NoError
    /\ canonAgain = NotCalled
    /\ canonAgain' = CanonicalTransferSyntaxUID(canonRes.uid)
    /\ UNCHANGED <<registry, uidArg, canonRes, parseRes, inVars, parseVars>>

DoParseTransferSyntaxUID ==
    /\ parseRes = NotParsed
    /\ parseRes' = ParseTransferSyntaxUID(uidArg)
    /\ UNCHANGED <<registry, uidArg, canonRes, canonAgain, inVars, parseVars>>

(***************************************************************************)
(* Specifications.                                                         *)
(***************************************************************************)
\* Decoder state after NewDecoder(in, bytes, binary.LittleEndian, ExplicitVR).
InitDecoder ==
    /\ pc = "header"
    /\ remaining = PreambleBytes + SumBytes(meta) + SumBytes(wire)
    /\ pos = 0
    /\ err = NoError
    /\ tsStack = <<ExplicitVRLittle>>
    /\ codingSystem = DefaultCodingSystem
    /\ metaElems = <<>>
    /\ fileElements = <<>>
    /\ elem = ZeroElement
    /\ tsUID = ""
    /\ ret = NotReturned
    /\ pushes = 0
    /\ pops = 0
    /\ readLog = <<>>

\* Parse on an input of bounded size, with the standard's registry.
Init ==
    /\ registry = StdRegistry
    /\ uidArg = ""
    /\ canonRes = NotCalled
    /\ canonAgain = NotCalled
    /\ parseRes = NotParsed
    /\ meta \in SeqsUpTo(MetaItems, MaxMeta)
    /\ wire \in SeqsUpTo(WireItems, MaxElems)
    /\ InitDecoder

Next ==
    \/ ParseHeader
    \/ LookupTS
    \/ GetStringTS
    \/ ResolveTS
    \/ LoopRead
    \/ LoopExit
    \/ LoopCheck
    \/ LoopCharset
    \/ LoopAppend
    \/ ParseReturn

Spec == Init /\ [][Next]_vars

\* Parse runs on its own goroutine without waiting on anything: every step
\* that is enabled is eventually taken.
FairSpec == Spec /\ WF_vars(Next)

\* The resolver on any uid, whatever the registry holds.
InitTS ==
    /\ registry \in [UIDs -> RegistryEntries]
    /\ uidArg \in UIDs \cup {""}
    /\ canonRes = NotCalled
    /\ canonAgain = NotCalled
    /\ parseRes = NotParsed
    /\ meta = <<>>
    /\ wire = <<>>
    /\ InitDecoder

NextTS ==
    \/ DoCanonical
    \/ DoCanonicalAgain
    \/ DoParseTransferSyntaxUID

SpecTS == InitTS /\ [][NextTS]_vars

(***************************************************************************)
(* Properties of the resolver, checked under SpecTS.                       *)
(***************************************************************************)
ExpectedEncoding(c) ==
    CASE c = ImplicitVRLittleEndian -> <<"little", TRUE>>
      [] c = ExplicitVRLittleEndian -> <<"little", FALSE>>
      [] c = DeflatedExplicitVRLittleEndian -> <<"little", FALSE>>
      [] c = ExplicitVRBigEndian -> <<"big", FALSE>>
      [] OTHER -> <<"nil", FALSE>>

\* C1: whenever CanonicalTransferSyntaxUID succeeds on a uid, ParseTransferSyntaxUID
\* on that uid returns normally (no panic, no error) with the byte order and
\* implicit-VR flag of the canonical UID; deflated explicit-VR little-endian is
\* (little, false).
C1_ParseFollowsCanonical ==
    (parseRes # NotParsed /\ canonRes # NotCalled /\ canonRes.err = NoError)
        => /\ ~parseRes.panic
           /\ parseRes.err = NoError
           /\ <<parseRes.bo, parseRes.implicit>> = ExpectedEncoding(canonRes.uid)

RegistryType(uid) == IF uid \in DOMAIN registry THEN registry[uid] ELSE Absent

\* C2: the result of CanonicalTransferSyntaxUID is fixed by four cases: a well-known
\* uid is returned unchanged whatever the registry holds; else an unregistered uid
\* fails with the lookup error; else a uid of another type fails with the
\* not-a-transfer-syntax error; else ExplicitVRLittleEndian is returned.  A success
\* is a member of StandardTransferSyntaxes and a failure returns the empty string.
C2_CanonicalFourCases ==
    canonRes # NotCalled =>
        /\ uidArg \in StandardSet => canonRes = [uid |-> uidArg, err |-> NoError]
        /\ (uidArg \notin StandardSet /\ RegistryType(uidArg) = Absent)
               => canonRes = [uid |-> "", err |-> ErrUnknownUID]
        /\ (uidArg \notin StandardSet
                /\ RegistryType(uidArg) \notin {Absent, UIDTypeTransferSyntax})
               => canonRes = [uid |-> "", err |-> ErrNotATransferSyntax]
        /\ (uidArg \notin StandardSet /\ RegistryType(uidArg) = UIDTypeTransferSyntax)
               => canonRes = [uid |-> ExplicitVRLittleEndian, err |-> NoError]
        /\ canonRes.err = NoError =>
               \E i \in DOMAIN StandardTransferSyntaxes :
                   canonRes.uid = StandardTransferSyntaxes[i]
        /\ canonRes.err # NoError => canonRes.uid = ""

\* A registered transfer syntax outside the four well-known ones was canonicalized.
C2_Witness ==
    /\ canonRes # NotCalled
    /\ canonRes.err = NoError
    /\ uidArg \notin StandardSet

\* C3: canonicalizing a successful result again succeeds and returns the same UID.
C3_Idempotent ==
    canonAgain # NotCalled =>
        /\ canonRes.err = NoError
        /\ canonAgain.err = NoError
        /\ canonAgain.uid = canonRes.uid

\* The second call was made on the fallback result of a uid that is not well known,
\* with a registry that does not list the fallback's own uid as a transfer syntax.
C3_Witness ==
    /\ canonAgain # NotCalled
    /\ uidArg \notin StandardSet
    /\ registry[ExplicitVRLittleEndian] # UIDTypeTransferSyntax

(***************************************************************************)
(* Properties of Parse, checked under Spec (C10 under FairSpec).           *)
(***************************************************************************)
\* The elements decoded so far: the meta elements, then the dataset elements read
\* without error.
Decoded == metaElems \o readLog

Returned == pc = "done"

\* A step that calls ReadDataElement.
IsRead == pc = "loop" /\ pc' = "check"

C5_PushPopBalanced ==
    /\ pops <= pushes
    /\ pushes <= 1
    /\ pc \in {"header", "lookup", "getstring", "resolve", "panicked"}
           => (pushes = 0 /\ pops = 0 /\ tsStack = <<ExplicitVRLittle>>)
    /\ pc \in {"loop", "check", "charset", "append", "finish"}
           => (pushes = 1 /\ pops = 0 /\ Len(tsStack) = 2)
    /\ Returned =>
           /\ pops = pushes
           /\ tsStack = <<ExplicitVRLittle>>
           /\ ret.file = "nil" => pushes = 0
           /\ ret.file = "file" => pushes = 1

\* Parse returned after its loop broke on an error.
C5_Witness ==
    /\ Returned
    /\ pushes = 1
    /\ err # NoError
    /\ remaining > 0

\* C6: once the Decoder holds an error, Parse attempts no further element read and
\* appends no further element (so the element of the failed read is not appended).
C6_StopOnError ==
    [][err # NoError => (~IsRead /\ fileElements' = fileElements)]_vars

\* C7: the returned list is the meta elements in header order followed by the
\* dataset elements in the order read, which is the order of the wire; the list
\* changes only by being set to the meta elements or by an append at its end.
C7_WireOrder ==
    /\ [](/\ pc \in {"lookup", "getstring", "resolve"} => fileElements = metaElems
          /\ pc \in {"loop", "finish"} => fileElements = Decoded
          /\ (Returned /\ ret.file = "file") =>
                 /\ ret.Elements = Decoded
                 /\ \A i \in DOMAIN readLog :
                        /\ readLog[i].Tag = wire[i].tag
                        /\ readLog[i].Value = wire[i].val)
    /\ [][\/ fileElements' = fileElements
          \/ (pc = "header" /\ fileElements' = metaElems')
          \/ (pc = "append" /\ fileElements' = Append(fileElements, elem))]_vars

\* Two meta elements and two different dataset elements were returned.
C7_Witness ==
    /\ Returned
    /\ ret.file = "file"
    /\ Len(metaElems) >= 2
    /\ Len(readLog) >= 2
    /\ readLog[1] # readLog[2]

NoTransferSyntaxElement ==
    \A i \in DOMAIN metaElems : metaElems[i].Tag # TagTransferSyntaxUID

\* C8: without an element tagged TransferSyntaxUID among the meta elements Parse
\* fails with the missing-element error, before any push and any dataset read;
\* otherwise the element used is the first with that tag in meta-header order.
C8_MissingTransferSyntax ==
    /\ (pc \notin {"header", "lookup"} /\ FirstBad(meta, 1) = 0 /\ NoTransferSyntaxElement)
           => /\ Returned
              /\ ret = ReturnNil(ErrMissingElement)
              /\ pushes = 0
              /\ pops = 0
              /\ tsStack = <<ExplicitVRLittle>>
              /\ pos = 0
              /\ readLog = <<>>
    /\ pc = "getstring" =>
           \E i \in DOMAIN metaElems :
               /\ metaElems[i].Tag = TagTransferSyntaxUID
               /\ \A j \in 1..(i - 1) : metaElems[j].Tag # TagTransferSyntaxUID
               /\ elem = metaElems[i]
    /\ pc = "resolve" =>
           \E i \in DOMAIN metaElems :
               /\ metaElems[i].Tag = TagTransferSyntaxUID
               /\ \A j \in 1..(i - 1) : metaElems[j].Tag # TagTransferSyntaxUID
               /\ tsUID = metaElems[i].Value

\* Parse returned the missing-element error on a header that held elements.
C8_Witness ==
    /\ Returned
    /\ ret.err = ErrMissingElement
    /\ metaElems # <<>>
    /\ wire # <<>>

\* The coding system in force after the first k elements of log.
RECURSIVE CodingSystemAfter(_, _)
CodingSystemAfter(log, k) ==
    IF k = 0 THEN DefaultCodingSystem
    ELSE IF log[k].Tag = TagSpecificCharacterSet
             /\ parseSpecificCharacterSet(log[k]).err = NoError
         THEN parseSpecificCharacterSet(log[k]).cs
         ELSE CodingSystemAfter(log, k - 1)

\* C9: after a Specific Character Set element whose value parses is read, the
\* Decoder's coding system is that value before the next read, so every later
\* element is decoded with it; when the value does not parse the coding system
\* stays and the error is recorded on the Decoder.
C9_CodingSystemSwitch ==
    /\ \A i \in DOMAIN readLog : readLog[i].cs = CodingSystemAfter(readLog, i - 1)
    /\ pc \in {"loop", "append"} => codingSystem = CodingSystemAfter(readLog, Len(readLog))
    /\ (pc = "append" /\ elem.Tag = TagSpecificCharacterSet
            /\ parseSpecificCharacterSet(elem).err # NoError)
           => /\ err = ErrBadCharset
              /\ codingSystem = CodingSystemAfter(readLog, Len(readLog) - 1)

\* A text element was decoded with a coding system set by an earlier element.
C9_Witness ==
    \E i \in DOMAIN readLog :
        /\ readLog[i].Tag = TagPatientName
        /\ readLog[i].cs # DefaultCodingSystem

\* C10: Parse terminates: every read either strictly decreases the remaining
\* length or leaves the Decoder holding an error, the remaining length never
\* grows, and Parse eventually returns (or panics in the resolver).
C10_Terminates ==
    /\ [][IsRead => (remaining' < remaining \/ err' # NoError)]_vars
    /\ [][remaining' <= remaining]_vars
    /\ <>(pc \in {"done", "panicked"})

\* The loop ended on the error Parse itself recorded, with input left unread.
C10_Witness ==
    /\ Returned
    /\ err = ErrBadCharset
    /\ remaining > 0

====
